---- MODULE Spec2Model ----
(***************************************************************************)
(* Model of itsalive.go: per-target polling loops (watchURL) with the      *)
(* hysteresis evaluator (getNewStatus), fanned in through one buffered     *)
(* channel to the single consumer (slackNotifier).                         *)
(***************************************************************************)
EXTENDS Integers, Sequences, FiniteSets, TLC

(* ---- bounds of the model ---- *)
\* the number of configured targets is 1..MaxItems
MaxItems == 2
\* OKPeriods and AlarmPeriods of a target range over 1..MaxPeriods
MaxPeriods == 2
\* total number of polls issued by all watchers together
MaxPolls == 4
\* periods of a call of getNewStatus checked on its own
MaxEvalPeriods == 3

(* ---- program constants ---- *)
checkStatusUnknown == 0
checkStatusOk      == 1
checkStatusAlarm   == 2
\* capacity of the events channel, make(chan statusChange, 100), scaled down
QueueCap == 2

Statuses == {checkStatusUnknown, checkStatusOk, checkStatusAlarm}
\* result of a call that panics on an index out of range; no checkStatus
Fault == 0 - 1

max(x, y) == IF x > y THEN x ELSE y

\* a buffer that starts filled with checkStatusOk
MakeHistory_ok(n) == [i \in 1..n |-> checkStatusOk]

\* the zero-filled slice make([]checkStatus, n)
MakeHistory(n) == [i \in 1..n |-> checkStatusUnknown]

(* The backward loop of getNewStatus,                                      *)
(*   for idx := size - 2; idx >= low; idx-- { if history[idx] != val ... } *)
(* idx and low are the 0-based indices of the code.                        *)
RECURSIVE scanBack(_, _, _, _)
\* the loop comparing only against the zero value, so a differing real
\* outcome never clears the flag
scanBack_nobreak(history, idx, low, val) ==
  IF idx < low THEN "all"
  ELSE IF idx < 0 \/ idx >= Len(history) THEN "fault"
  ELSE IF history[idx + 1] = checkStatusUnknown THEN "broken"
  ELSE "all"

scanBack(history, idx, low, val) ==
  IF idx < low THEN "all"
  ELSE IF idx < 0 \/ idx >= Len(history) THEN "fault"
  ELSE IF history[idx + 1] # val THEN "broken"
  ELSE scanBack(history, idx - 1, low, val)

\* the Alarm branch looking at the newest entry only
alarmBranch_single(history, alarmPeriods) ==
  IF history[Len(history)] = checkStatusAlarm
  THEN checkStatusAlarm ELSE checkStatusUnknown

alarmBranch(history, alarmPeriods) ==
  LET size == Len(history) IN
  IF history[size] = checkStatusAlarm
  THEN LET r == scanBack(history, size - 2, size - alarmPeriods, checkStatusAlarm) IN
       IF r = "fault" THEN Fault
       ELSE IF r = "all" THEN checkStatusAlarm
       ELSE checkStatusUnknown
  ELSE checkStatusUnknown

\* getNewStatus with both loops stopping one entry early (idx > size-n)
getNewStatus_short(history, okPeriods, alarmPeriods) ==
  LET size == Len(history)
      last == history[size]
      n == IF last = checkStatusOk THEN okPeriods ELSE alarmPeriods
  IN IF last = checkStatusUnknown THEN checkStatusUnknown
     ELSE IF scanBack(history, size - 2, size - n + 1, last) = "all" THEN last
     ELSE checkStatusUnknown

getNewStatus(history, okPeriods, alarmPeriods) ==
  LET size == Len(history) IN
  IF size = 0 THEN Fault
  ELSE IF history[size] = checkStatusOk
  THEN LET r == scanBack(history, size - 2, size - okPeriods, checkStatusOk) IN
       IF r = "fault" THEN Fault
       ELSE IF r = "all" THEN checkStatusOk
       ELSE alarmBranch(history, alarmPeriods)
  ELSE alarmBranch(history, alarmPeriods)

VARIABLES
  items,       \* config.Items: sequence of [OKPeriods, AlarmPeriods]
  pc,          \* position of each watchURL goroutine
  lastStatus,  \* watchURL's lastStatus, per watcher
  history,     \* watchURL's history slice, per watcher
  newStatus,   \* watchURL's newStatus of the current iteration, per watcher
  events,      \* contents of the buffered channel
  npc,         \* position of slackNotifier
  change,      \* the statusChange slackNotifier is handling
  aborted,     \* the process has exited through exit()
  polls,       \* log: raw outcomes of each watcher's polls, in order
  results,     \* log: value of getNewStatus at each poll, per watcher
  sent,        \* log: all completed channel sends, in order
  received,    \* log: all values received by slackNotifier, in order
  evHistory, evOk, evAlarm, evResult, evDone,  \* a call of getNewStatus on its own
  config,      \* main's config, as decoded from the file
  mpc,         \* position of main
  verr,        \* the error returned by validateConfig
  probe        \* log: what the latest GET of each watcher returned

vars == <<items, pc, lastStatus, history, newStatus, events, npc, change,
          aborted, polls, results, sent, received,
          evHistory, evOk, evAlarm, evResult, evDone,
          config, mpc, verr, probe>>
watcherVars == <<items, pc, lastStatus, history, newStatus, events, npc, change,
                 aborted, polls, results, sent, received, probe>>
evVars == <<evHistory, evOk, evAlarm, evResult, evDone>>
mainVars == <<config, mpc, verr>>

Watchers == 1..Len(items)

\* a watcher that starts out with a confirmed Ok
InitialStatus_ok == checkStatusOk

\* line 127: var lastStatus = checkStatusUnknown
InitialStatus == checkStatusUnknown

NoChange == [name |-> 0, from |-> 0, to |-> 0, time |-> 0]

RECURSIVE SumLen(_, _)
SumLen(f, n) == IF n = 0 THEN 0 ELSE Len(f[n]) + SumLen(f, n - 1)
TotalPolls == SumLen(polls, Len(items))

\* urlConfig values that satisfy every requirement on a target; durations
\* are counted in seconds
UrlConfigs ==
  [URL : {"u"}, OKStatuses : {<<200>>}, CheckInterval : {1}, HTTPTimeout : {1},
   OKPeriods : 1..MaxPeriods, AlarmPeriods : 1..MaxPeriods]

\* the nil error
NoError == [kind |-> "nil", idx |-> 0 - 1, msg |-> ""]
\* errors.New(msg)
NewError(msg) == [kind |-> "config", idx |-> 0 - 1, msg |-> msg]
\* fmt.Errorf("invalid item %d: %s", idx, msg), idx counted from 0
ItemError(idx, msg) == [kind |-> "item", idx |-> idx, msg |-> msg]

\* utf8.RuneCountInString on the ASCII strings of the model
RuneCountInString(str) == Len(str)
\* duration.Seconds(), durations being whole seconds here
Seconds(d) == d

\* lines 166-192: the message of the first failed check, "" for nil
validateURLConfig(conf) ==
  IF RuneCountInString(conf.URL) = 0 THEN "empty URL"
  ELSE IF Len(conf.OKStatuses) = 0 THEN "empty OKStatuses"
  ELSE IF Seconds(conf.CheckInterval) = 0 THEN "CheckInterval == 0s"
  ELSE IF Seconds(conf.HTTPTimeout) = 0 THEN "HTTPTimeout == 0s"
  ELSE IF conf.AlarmPeriods = 0 THEN "AlarmPeriods == 0"
  ELSE IF conf.OKPeriods = 0 THEN "OKPeriods == 0"
  ELSE ""

\* lines 211-215: the loop over config.Items from position i (1-based)
RECURSIVE validateItems(_, _)
validateItems(its, i) ==
  IF i > Len(its) THEN NoError
  ELSE IF validateURLConfig(its[i]) # ""
       THEN ItemError(i - 1, validateURLConfig(its[i]))
       ELSE validateItems(its, i + 1)

\* lines 194-218
validateConfig(cfg) ==
  IF RuneCountInString(cfg.SlackToken) = 0 THEN NewError("empty SlackToken")
  ELSE IF RuneCountInString(cfg.SlackChannel) = 0 THEN NewError("empty SlackChannel")
  ELSE IF RuneCountInString(cfg.BotName) = 0 THEN NewError("empty BotName")
  ELSE IF Len(cfg.Items) = 0 THEN NewError("no items")
  ELSE validateItems(cfg.Items, 1)

\* the aliveConfig around a list of items, with the global fields set
ConfigOf(its) ==
  [Items |-> its, SlackToken |-> "t", SlackChannel |-> "c", BotName |-> "b"]

\* lines 86-93
intInSlice(a, slice) == \E i \in 1..Len(slice) : slice[i] = a

\* lines 71-77; err is TRUE when client.Get returned an error
checkResponse(statusCode, err, conf) ==
  IF err THEN FALSE ELSE intInSlice(statusCode, conf.OKStatuses)

\* what one GET can return: a transport error or timeout (no response), a
\* response with status 200, a response with status 503
Probes == {[err |-> TRUE, code |-> 0], [err |-> FALSE, code |-> 200],
           [err |-> FALSE, code |-> 503]}

(* State right after main has started slackNotifier and one watchURL per   *)
(* item, each having run up to the top of its loop.                        *)
Init ==
  /\ \E n \in 1..MaxItems : items \in [1..n -> UrlConfigs]
  /\ pc = [w \in Watchers |-> "poll"]
  /\ lastStatus = [w \in Watchers |-> InitialStatus]
  /\ history = [w \in Watchers |->
                  MakeHistory(max(items[w].OKPeriods, items[w].AlarmPeriods))]
  /\ newStatus = [w \in Watchers |-> checkStatusUnknown]
  /\ events = <<>>
  /\ npc = "recv"
  /\ change = NoChange
  /\ aborted = FALSE
  /\ polls = [w \in Watchers |-> <<>>]
  /\ results = [w \in Watchers |-> <<>>]
  /\ sent = <<>>
  /\ received = <<>>
  /\ evHistory = <<>> /\ evOk = 1 /\ evAlarm = 1
  /\ evResult = checkStatusUnknown /\ evDone = FALSE
  /\ config = ConfigOf(items)
  /\ mpc = "idle"
  /\ verr = NoError
  /\ probe = [w \in Watchers |-> [err |-> FALSE, code |-> 0]]

\* lines 141-146: the raw outcome of one poll, from checkResponse's result
classify(result) == IF result THEN checkStatusOk ELSE checkStatusAlarm

\* the window keeps growing instead of sliding
slide_grow(h, currentStatus) == Append(h, currentStatus)

\* line 148: history = append(history[1:], currentStatus)
slide(h, currentStatus) == Append(Tail(h), currentStatus)

\* the condition without the test against checkStatusUnknown
shouldSend_any(ns, last) == ns # last

\* the condition without the test against lastStatus
shouldSend_repeat(ns, last) == ns # checkStatusUnknown

\* line 151: newStatus != checkStatusUnknown && newStatus != lastStatus
shouldSend(ns, last) == ns # checkStatusUnknown /\ ns # last

\* a send that never blocks
chanHasRoom_always(q) == TRUE

\* a send on the buffered channel proceeds only while the buffer has room
chanHasRoom(q) == Len(q) < QueueCap

\* a send that discards the value when another one is already buffered
chanPut_lossy(q, v) == IF Len(q) >= 1 THEN q ELSE Append(q, v)

\* the buffer of the channel after a send of v
chanPut(q, v) == Append(q, v)

(* watchURL lines 138-151: one GET, its classification by checkResponse,   *)
(* the slide of the window, the evaluation and the decision to send. When  *)
(* nothing is to be sent the iteration ends here: the sleep of line 162    *)
(* changes no state and the watcher is back at the top of the loop.        *)
Poll(w, result) ==
  /\ ~aborted
  /\ pc[w] = "poll"
  /\ TotalPolls < MaxPolls
  /\ LET currentStatus == classify(result)
         \* history[1:] of an empty slice panics, as does history[size-1]
         h == IF history[w] = <<>> THEN <<>> ELSE slide(history[w], currentStatus)
         ns == getNewStatus(h, items[w].OKPeriods, items[w].AlarmPeriods)
     IN /\ history' = [history EXCEPT ![w] = h]
        /\ newStatus' = [newStatus EXCEPT ![w] = ns]
        /\ polls' = [polls EXCEPT ![w] = Append(@, currentStatus)]
        /\ results' = [results EXCEPT ![w] = Append(@, ns)]
        /\ pc' = [pc EXCEPT ![w] =
                    IF ns = Fault THEN "panic"
                    ELSE IF shouldSend(ns, lastStatus[w]) THEN "send"
                    ELSE "poll"]
  /\ UNCHANGED <<items, lastStatus, events, npc, change, aborted, sent, received>>
  /\ UNCHANGED <<evVars, mainVars>>

\* the error of client.Get ignored: a transport error counts as a success
classifyProbe_drop(w, p) ==
  IF checkResponse(p.code, p.err, items[w]) THEN TRUE ELSE p.err

\* lines 138-139: result := checkResponse(resp, err, config)
classifyProbe(w, p) == checkResponse(p.code, p.err, items[w])

(* One iteration of watchURL from the GET of line 138 on: Poll with the    *)
(* result checkResponse gives for what the GET returned.                   *)
Get(w, p) ==
  /\ Poll(w, classifyProbe(w, p))
  /\ probe' = [probe EXCEPT ![w] = p]

\* the statusChange built at lines 152-158; time is the number of the poll
MakeChange(w) ==
  [name |-> w, from |-> lastStatus[w], to |-> newStatus[w], time |-> Len(polls[w])]

(* watchURL line 152: the channel send, which blocks while the buffer is full *)
Send(w) ==
  /\ ~aborted
  /\ pc[w] = "send"
  /\ chanHasRoom(events)
  /\ events' = chanPut(events, MakeChange(w))
  /\ sent' = Append(sent, MakeChange(w))
  /\ pc' = [pc EXCEPT ![w] = "update"]
  /\ UNCHANGED <<items, lastStatus, history, newStatus, npc, change, aborted,
                 polls, results, received>>
  /\ UNCHANGED <<evVars, mainVars, probe>>

\* the assignment left out
afterSend_keep(last, ns) == last

\* the confirmed state cleared after every send
afterSend_reset(last, ns) == checkStatusUnknown

\* line 159: lastStatus = newStatus
afterSend(last, ns) == ns

\* lastStatus as one variable shared by all watchers
Update_shared(w) ==
  /\ ~aborted
  /\ pc[w] = "update"
  /\ lastStatus' = [u \in DOMAIN lastStatus |-> afterSend(lastStatus[u], newStatus[w])]
  /\ pc' = [pc EXCEPT ![w] = "poll"]
  /\ UNCHANGED <<items, history, newStatus, events, npc, change, aborted,
                 polls, results, sent, received>>
  /\ UNCHANGED <<evVars, mainVars, probe>>

(* watchURL lines 159-162: the assignment after the send has completed,    *)
(* then the sleep and the jump back to the top of the loop.                *)
Update(w) ==
  /\ ~aborted
  /\ pc[w] = "update"
  /\ lastStatus' = [lastStatus EXCEPT ![w] = afterSend(@, newStatus[w])]
  /\ pc' = [pc EXCEPT ![w] = "poll"]
  /\ UNCHANGED <<items, history, newStatus, events, npc, change, aborted,
                 polls, results, sent, received>>
  /\ UNCHANGED <<evVars, mainVars, probe>>

(* slackNotifier line 257: receive the next value of the channel *)
Receive ==
  /\ ~aborted
  /\ npc = "recv"
  /\ Len(events) > 0
  /\ change' = Head(events)
  /\ events' = Tail(events)
  /\ received' = Append(received, Head(events))
  /\ npc' = "post"
  /\ UNCHANGED <<items, pc, lastStatus, history, newStatus, aborted,
                 polls, results, sent>>
  /\ UNCHANGED <<evVars, mainVars, probe>>

\* a panic that ends only the goroutine it happens in
exit_goroutine == FALSE

\* lines 54-59: the deferred exit() ends the process (log.Fatalf or os.Exit)
exit == TRUE

\* a consumer that returns after its first message
afterPost_stop == "done"

\* line 257: the range loop goes on to the next receive
afterPost == "recv"

(* slackNotifier lines 260-263: PostMessage returns err; on an error the   *)
(* panic ends slackNotifier and runs the deferred exit().                  *)
Post(err) ==
  /\ ~aborted
  /\ npc = "post"
  /\ IF err THEN /\ aborted' = exit
                 /\ npc' = "dead"
            ELSE /\ aborted' = aborted
                 /\ npc' = afterPost
  /\ UNCHANGED <<items, pc, lastStatus, history, newStatus, events, change,
                 polls, results, sent, received>>
  /\ UNCHANGED <<evVars, mainVars, probe>>

Next ==
  \/ \E w \in Watchers : \E p \in Probes : Get(w, p)
  \/ \E w \in Watchers : Send(w)
  \/ \E w \in Watchers : Update(w)
  \/ Receive
  \/ \E err \in BOOLEAN : Post(err)

Spec == Init /\ [][Next]_vars

(* The Go scheduler runs every goroutine that can take a step, GET and     *)
(* PostMessage return, and a send or receive that stays possible is done.  *)
Fairness ==
  /\ WF_vars(Receive)
  /\ WF_vars(\E err \in BOOLEAN : Post(err))
  /\ \A w \in 1..MaxItems :
       /\ WF_vars(w \in Watchers /\ \E p \in Probes : Get(w, p))
       /\ WF_vars(w \in Watchers /\ Send(w))
       /\ WF_vars(w \in Watchers /\ Update(w))

SpecFair == Init /\ [][Next]_vars /\ Fairness

(* ---- the whole program, from main's call of validateConfig ---- *)
\* values a decoded config file can give the periods of an item
CfgPeriods == {0 - 1, 0, 1}
\* values of one element of config.Items
CfgItems ==
  [URL : {"", "u"}, OKStatuses : {<<>>, <<200>>},
   CheckInterval : {0 - 1, 0, 1}, HTTPTimeout : {0, 1},
   OKPeriods : CfgPeriods, AlarmPeriods : CfgPeriods]
\* values of the decoded config
Configs ==
  [Items : UNION {[1..n -> CfgItems] : n \in 0..MaxItems},
   SlackToken : {"", "t"}, SlackChannel : {"", "c"}, BotName : {"", "b"}]

\* main has decoded the config file; no goroutine has been started
InitMain ==
  /\ config \in Configs
  /\ mpc = "validate"
  /\ verr = NoError
  /\ items = <<>> /\ pc = <<>> /\ lastStatus = <<>> /\ history = <<>>
  /\ newStatus = <<>> /\ events = <<>> /\ npc = "none" /\ change = NoChange
  /\ aborted = FALSE /\ polls = <<>> /\ results = <<>>
  /\ sent = <<>> /\ received = <<>> /\ probe = <<>>
  /\ evHistory = <<>> /\ evOk = 1 /\ evAlarm = 1
  /\ evResult = checkStatusUnknown /\ evDone = FALSE

\* a main that only logs the validation error and goes on
mayStart_always(err) == TRUE

\* lines 280-282: main goes on only when validateConfig returned nil
mayStart(err) == err = NoError

(* main lines 280-282: validateConfig, and log.Panicf on an error; the     *)
(* panic is not recovered in main, so the process ends.                    *)
Validate ==
  /\ ~aborted
  /\ mpc = "validate"
  /\ verr' = validateConfig(config)
  /\ IF mayStart(validateConfig(config))
     THEN mpc' = "start" /\ aborted' = aborted
     ELSE mpc' = "panic" /\ aborted' = TRUE
  /\ UNCHANGED <<items, pc, lastStatus, history, newStatus, events, npc, change,
                 polls, results, sent, received, probe, config>>
  /\ UNCHANGED evVars

(* main lines 284-295 with the start of every goroutine, watchURL lines    *)
(* 125-135: the channel is made, slackNotifier and one watchURL per item   *)
(* are started, and each watchURL makes its history, which panics for a    *)
(* negative length.                                                        *)
Start ==
  /\ ~aborted
  /\ mpc = "start"
  /\ mpc' = "idle"
  /\ items' = config.Items
  /\ LET W == 1..Len(config.Items)
         L(w) == max(config.Items[w].OKPeriods, config.Items[w].AlarmPeriods)
     IN /\ pc' = [w \in W |-> IF L(w) < 0 THEN "panic" ELSE "poll"]
        /\ history' = [w \in W |-> IF L(w) < 0 THEN <<>> ELSE MakeHistory(L(w))]
        /\ lastStatus' = [w \in W |-> InitialStatus]
        /\ newStatus' = [w \in W |-> checkStatusUnknown]
        /\ polls' = [w \in W |-> <<>>]
        /\ results' = [w \in W |-> <<>>]
        /\ probe' = [w \in W |-> [err |-> FALSE, code |-> 0]]
  /\ events' = <<>>
  /\ npc' = "recv"
  /\ UNCHANGED <<change, aborted, sent, received, config, verr>>
  /\ UNCHANGED evVars

(* a panic in watchURL ends the goroutine and runs its deferred exit() *)
WatcherPanic(w) ==
  /\ ~aborted
  /\ pc[w] = "panic"
  /\ pc' = [pc EXCEPT ![w] = "dead"]
  /\ aborted' = exit
  /\ UNCHANGED <<items, lastStatus, history, newStatus, events, npc, change,
                 polls, results, sent, received, probe>>
  /\ UNCHANGED <<evVars, mainVars>>

NextMain ==
  \/ Validate
  \/ Start
  \/ \E w \in Watchers : \E p \in Probes : Get(w, p)
  \/ \E w \in Watchers : Send(w)
  \/ \E w \in Watchers : Update(w)
  \/ \E w \in Watchers : WatcherPanic(w)
  \/ Receive
  \/ \E err \in BOOLEAN : Post(err)

SpecMain == InitMain /\ [][NextMain]_vars

(* ---- getNewStatus called on its own ---- *)
\* all sequences of length n over S
RECURSIVE SeqsOf(_, _)
SeqsOf(S, n) ==
  IF n = 0 THEN {<<>>}
  ELSE {Append(q, x) : q \in SeqsOf(S, n - 1), x \in S}

\* no goroutine is running; the arguments of one call are chosen freely
InitEval ==
  /\ items = <<>> /\ pc = <<>> /\ lastStatus = <<>> /\ history = <<>>
  /\ newStatus = <<>> /\ events = <<>> /\ npc = "recv" /\ change = NoChange
  /\ aborted = FALSE /\ polls = <<>> /\ results = <<>>
  /\ sent = <<>> /\ received = <<>>
  /\ config = ConfigOf(<<>>) /\ mpc = "idle" /\ verr = NoError /\ probe = <<>>
  /\ evOk \in 1..MaxEvalPeriods
  /\ evAlarm \in 1..MaxEvalPeriods
  /\ evHistory \in SeqsOf(Statuses, max(evOk, evAlarm))
  /\ evResult = checkStatusUnknown
  /\ evDone = FALSE

Evaluate ==
  /\ ~evDone
  /\ evResult' = getNewStatus(evHistory, evOk, evAlarm)
  /\ evDone' = TRUE
  /\ UNCHANGED <<evHistory, evOk, evAlarm>>
  /\ UNCHANGED <<watcherVars, mainVars>>

NextEval == Evaluate

SpecEval == InitEval /\ [][NextEval]_vars

(* ---- properties of getNewStatus ---- *)
\* the last n entries of h are all v
LastAll(h, n, v) == \A i \in (Len(h) - n + 1)..Len(h) : h[i] = v
\* two of the last n entries of h differ
LastDiffer(h, n) ==
  \E i, j \in (Len(h) - n + 1)..Len(h) : h[i] # h[j]

(* C1: on a buffer of length max(N_ok, N_alarm) with N_ok, N_alarm >= 1,   *)
(* getNewStatus returns Ok exactly when the last N_ok entries are all Ok,  *)
(* Alarm exactly when the last N_alarm entries are all Alarm, and Unknown  *)
(* otherwise; older entries have no influence.                             *)
C1_EvaluatorRule ==
  evDone =>
    /\ evResult \in Statuses
    /\ (evResult = checkStatusOk) <=> LastAll(evHistory, evOk, checkStatusOk)
    /\ (evResult = checkStatusAlarm) <=> LastAll(evHistory, evAlarm, checkStatusAlarm)
    /\ (evResult = checkStatusUnknown) <=>
          /\ ~LastAll(evHistory, evOk, checkStatusOk)
          /\ ~LastAll(evHistory, evAlarm, checkStatusAlarm)

\* Ok is returned although an entry older than the last N_ok is not Ok
C1_Witness ==
  /\ evDone /\ evResult = checkStatusOk
  /\ evOk < evAlarm /\ evOk >= 2
  /\ evHistory[1] = checkStatusAlarm

(* C2 as stated: a differing entry among the last N_ok positions, or among *)
(* the last N_alarm positions, makes getNewStatus return Unknown.          *)
C2_Original ==
  evDone =>
    ((LastDiffer(evHistory, evOk) \/ LastDiffer(evHistory, evAlarm))
       => evResult = checkStatusUnknown)

(* C2 amended: a differing entry among the last N_ok positions rules out   *)
(* Ok, one among the last N_alarm positions rules out Alarm, and when both *)
(* ranges hold a differing entry the result is Unknown.                    *)
C2_DifferingEntry ==
  evDone =>
    /\ LastDiffer(evHistory, evOk) => evResult # checkStatusOk
    /\ LastDiffer(evHistory, evAlarm) => evResult # checkStatusAlarm
    /\ (LastDiffer(evHistory, evOk) /\ LastDiffer(evHistory, evAlarm))
         => evResult = checkStatusUnknown

\* the newest entry is Ok and only the oldest entry of the Ok range differs
C2_Witness ==
  /\ evDone /\ evOk >= 2 /\ evAlarm >= 2
  /\ evHistory[Len(evHistory)] = checkStatusOk
  /\ evHistory[Len(evHistory) - evOk + 1] = checkStatusAlarm
  /\ \A i \in (Len(evHistory) - evOk + 2)..Len(evHistory) : evHistory[i] = checkStatusOk
  /\ evResult = checkStatusUnknown

(* ---- properties of the watchers and the channel ---- *)
\* the periods a watcher needs to confirm status st
Need(w, st) ==
  IF st = checkStatusOk THEN items[w].OKPeriods ELSE items[w].AlarmPeriods
\* the n polls of p up to and including poll k exist and all gave v
RunAt(p, k, n, v) == k >= n /\ \A i \in (k - n + 1)..k : p[i] = v
\* the sends completed by watcher w, in order
EventsOf(w) == SelectSeq(sent, LAMBDA e : e.name = w)
\* number of sends watcher w completed in its iteration k
SentAt(w, k) == Cardinality({i \in 1..Len(sent) : sent[i].name = w /\ sent[i].time = k})
\* iteration k of watcher w is past its send statement
IterDone(w, k) ==
  \/ Len(polls[w]) > k
  \/ Len(polls[w]) = k /\ pc[w] \in {"update", "poll"}
\* the new state of the last event watcher w sent before its poll k
RECURSIVE ConfirmedBefore(_, _)
ConfirmedBefore(w, k) ==
  IF k <= 1 THEN checkStatusUnknown
  ELSE IF \E i \in 1..Len(sent) : sent[i].name = w /\ sent[i].time = k - 1
       THEN (CHOOSE e \in {sent[i] : i \in 1..Len(sent)} :
               e.name = w /\ e.time = k - 1).to
       ELSE ConfirmedBefore(w, k - 1)

(* C3: an event to Ok is enqueued only right after a poll at which the     *)
(* N_ok most recent polls of the target were real polls classified Ok, an  *)
(* event to Alarm only after N_alarm real Alarm polls; the neutral initial *)
(* entries never count.                                                    *)
C3_Debounce ==
  [][sent' # sent =>
       LET e == sent'[Len(sent')]
           w == e.name
       IN /\ e.to \in {checkStatusOk, checkStatusAlarm}
          /\ e.time = Len(polls[w])
          /\ polls'[w] = polls[w]
          /\ RunAt(polls[w], Len(polls[w]), Need(w, e.to), e.to)]_vars

\* a single Alarm followed by an Ok triggered nothing; the run A A did
C3_Witness ==
  \E i \in 1..Len(sent) :
    LET w == sent[i].name IN
    /\ sent[i].to = checkStatusAlarm /\ sent[i].from = checkStatusUnknown
    /\ sent[i].time = 4
    /\ polls[w][1] = checkStatusAlarm /\ polls[w][2] = checkStatusOk

(* C4 as stated: nothing is confirmed and nothing enqueued before          *)
(* max(N_ok, N_alarm) polls have completed and the buffer holds no neutral *)
(* entry.                                                                  *)
C4_Original ==
  \A w \in Watchers :
    LET L == max(items[w].OKPeriods, items[w].AlarmPeriods) IN
    /\ \A k \in 1..Len(results[w]) : results[w][k] # checkStatusUnknown => k >= L
    /\ \A i \in 1..Len(sent) : sent[i].name = w => sent[i].time >= L
    /\ newStatus[w] # checkStatusUnknown =>
         \A i \in 1..Len(history[w]) : history[w][i] # checkStatusUnknown

(* C4 amended: Ok is not confirmed, and no event to Ok enqueued, before    *)
(* N_ok polls have completed, Alarm not before N_alarm polls; the last     *)
(* N_ok (N_alarm) buffer entries the confirmation rests on are real        *)
(* observations, older entries may still be neutral.                       *)
C4_WarmUp ==
  \A w \in Watchers :
    /\ \A k \in 1..Len(results[w]) :
         results[w][k] # checkStatusUnknown => k >= Need(w, results[w][k])
    /\ \A i \in 1..Len(sent) :
         sent[i].name = w => sent[i].time >= Need(w, sent[i].to)
    /\ newStatus[w] # checkStatusUnknown =>
         \A i \in (Len(history[w]) - Need(w, newStatus[w]) + 1)..Len(history[w]) :
           history[w][i] # checkStatusUnknown

\* an event was sent while the buffer still holds a neutral entry
C4_Witness ==
  \E w \in Watchers :
    /\ items[w].OKPeriods = 1 /\ items[w].AlarmPeriods = 2
    /\ newStatus[w] = checkStatusOk
    /\ history[w][1] = checkStatusUnknown
    /\ \E i \in 1..Len(sent) : sent[i].name = w /\ sent[i].time = 1

(* C5: every event put on the channel has a new state Ok or Alarm that     *)
(* differs from its previous state, and a watcher enqueues at most one     *)
(* event per poll iteration.                                               *)
C5_EventShape ==
  /\ \A i \in 1..Len(sent) :
       /\ sent[i].to \in {checkStatusOk, checkStatusAlarm}
       /\ sent[i].to # sent[i].from
  /\ \A w \in Watchers : \A k \in 1..Len(polls[w]) : SentAt(w, k) <= 1

\* one watcher has sent in two different iterations
C5_Witness ==
  \E i, j \in 1..Len(sent) :
    i < j /\ sent[i].name = sent[j].name /\ sent[j].time = sent[i].time + 1

HasConfirmed(w) == \E k \in 1..Len(results[w]) : results[w][k] # checkStatusUnknown
FirstConfirmed(w) ==
  CHOOSE k \in 1..Len(results[w]) :
    /\ results[w][k] # checkStatusUnknown
    /\ \A j \in 1..(k - 1) : results[w][j] = checkStatusUnknown

(* C6: the first poll of a target at which getNewStatus returns a          *)
(* non-Unknown state enqueues exactly one event, from Unknown to that      *)
(* state; no event of the target is enqueued before it.                    *)
C6_FirstEvent ==
  \A w \in Watchers :
    /\ EventsOf(w) # <<>> => HasConfirmed(w)
    /\ HasConfirmed(w) =>
         LET k == FirstConfirmed(w)
             first == [name |-> w, from |-> checkStatusUnknown,
                       to |-> results[w][k], time |-> k]
         IN /\ \A i \in 1..Len(sent) : sent[i].name = w => sent[i].time >= k
            /\ IterDone(w, k) =>
                 /\ EventsOf(w) # <<>>
                 /\ Head(EventsOf(w)) = first
                 /\ SentAt(w, k) = 1
            /\ ~IterDone(w, k) =>
                 /\ pc[w] = "send"
                 /\ MakeChange(w) = first
                 /\ EventsOf(w) = <<>>

\* two unconfirmed polls, then the first confirmation and its single event
C6_Witness ==
  \E w \in Watchers :
    /\ HasConfirmed(w) /\ FirstConfirmed(w) = 3
    /\ Len(polls[w]) > 3
    /\ Len(EventsOf(w)) = 1

(* C7: each event's previous state is the new state of the target's        *)
(* preceding event (Unknown for the first), successive events never carry  *)
(* the same new state, and a poll that re-confirms the current confirmed   *)
(* state enqueues nothing.                                                 *)
C7_OnlyTransitions ==
  \A w \in Watchers :
    LET E == EventsOf(w) IN
    /\ \A i \in 1..Len(E) :
         /\ E[i].from = IF i = 1 THEN checkStatusUnknown ELSE E[i - 1].to
         /\ i > 1 => E[i].to # E[i - 1].to
         /\ i > 1 => E[i].time > E[i - 1].time
    /\ \A k \in 1..Len(results[w]) :
         (results[w][k] = ConfirmedBefore(w, k) /\ IterDone(w, k)) => SentAt(w, k) = 0

\* Ok, then an unconfirmed poll, then Ok again: still one event
C7_Witness ==
  \E w \in Watchers :
    /\ Len(results[w]) >= 3 /\ IterDone(w, 3)
    /\ results[w][1] = checkStatusOk
    /\ results[w][2] = checkStatusUnknown
    /\ results[w][3] = checkStatusOk
    /\ Len(EventsOf(w)) = 1

(* C8: with the confirmed state not Alarm, a run of N_alarm Alarm polls    *)
(* enqueues exactly one event to Alarm, at the N_alarm-th poll of the run; *)
(* after it no poll enqueues anything until a run of N_ok Ok polls         *)
(* completes, and that poll enqueues exactly one Alarm->Ok event.          *)
C8_AlarmThenOk ==
  \A w \in Watchers :
    LET p == polls[w]
        nA == items[w].AlarmPeriods
        nO == items[w].OKPeriods
    IN
    /\ \A k \in 1..Len(p) :
         (/\ IterDone(w, k)
          /\ RunAt(p, k, nA, checkStatusAlarm)
          /\ ConfirmedBefore(w, k) # checkStatusAlarm)
         => /\ SentAt(w, k) = 1
            /\ \E i \in 1..Len(sent) :
                 sent[i] = [name |-> w, from |-> ConfirmedBefore(w, k),
                            to |-> checkStatusAlarm, time |-> k]
            /\ k = nA \/ p[k - nA] = checkStatusOk
    /\ \A i \in 1..Len(sent) :
         (sent[i].name = w /\ sent[i].to = checkStatusAlarm) =>
           \A k \in (sent[i].time + 1)..Len(p) :
             IterDone(w, k) =>
               LET noneBefore == \A m \in (sent[i].time + 1)..(k - 1) :
                                   ~RunAt(p, m, nO, checkStatusOk)
               IN /\ (noneBefore /\ ~RunAt(p, k, nO, checkStatusOk))
                       => SentAt(w, k) = 0
                  /\ (noneBefore /\ RunAt(p, k, nO, checkStatusOk))
                       => /\ SentAt(w, k) = 1
                          /\ \E j \in 1..Len(sent) :
                               sent[j] = [name |-> w, from |-> checkStatusAlarm,
                                          to |-> checkStatusOk, time |-> k]

\* N_alarm = 2, N_ok = 1 with polls A A A O: one event at poll 2, none
\* at poll 3, one at poll 4; or N_alarm = 1, N_ok = 2 with polls A A O O:
\* one event at poll 1, none at polls 2 and 3, one at poll 4
C8_Witness ==
  \E w \in Watchers :
    LET nA == items[w].AlarmPeriods IN
    /\ nA + items[w].OKPeriods = 3
    /\ Len(polls[w]) = 4 /\ pc[w] = "poll"
    /\ polls[w][1] = checkStatusAlarm /\ polls[w][2] = checkStatusAlarm
    /\ polls[w][4] = checkStatusOk
    /\ EventsOf(w) =
         << [name |-> w, from |-> checkStatusUnknown, to |-> checkStatusAlarm, time |-> nA],
            [name |-> w, from |-> checkStatusAlarm, to |-> checkStatusOk, time |-> 4] >>

(* C9: the events received by the consumer are a prefix of the sequence of *)
(* completed sends, the rest being the channel's contents in order:        *)
(* nothing is dropped, duplicated or reordered, and one watcher's events   *)
(* arrive in that watcher's own order.                                     *)
C9_Fifo ==
  /\ sent = received \o events
  /\ \A i, j \in 1..Len(received) :
       (i < j /\ received[i].name = received[j].name)
         => received[i].time < received[j].time

\* more transitions than the capacity: the buffer is full, a watcher waits
\* at its send, the consumer has received, and two watchers have sent
C9_Witness ==
  /\ Len(events) = QueueCap
  /\ \E w \in Watchers : pc[w] = "send"
  /\ Len(received) >= 1
  /\ \E i, j \in 1..Len(sent) : sent[i].name # sent[j].name

(* C10: the channel never holds more than its capacity; a watcher at its   *)
(* send while the buffer is full stays there, and until its send has       *)
(* completed it issues no poll and changes neither its history nor         *)
(* lastStatus.                                                             *)
C10_Backpressure ==
  /\ [](Len(events) <= QueueCap)
  /\ [][\A w \in Watchers :
          pc[w] = "send" =>
            /\ history'[w] = history[w]
            /\ polls'[w] = polls[w]
            /\ lastStatus'[w] = lastStatus[w]
            /\ lastStatus[w] # newStatus[w]
            /\ Len(events) >= QueueCap => pc'[w] = "send"
            /\ pc'[w] # "send" =>
                 /\ pc'[w] = "update"
                 /\ sent' = Append(sent, MakeChange(w))
                 /\ Len(events') = Len(events) + 1]_vars

\* the buffer is full and a watcher is blocked while the consumer is busy
C10_Witness ==
  /\ Len(events) = QueueCap
  /\ npc = "post"
  /\ \E w \in Watchers : pc[w] = "send" /\ lastStatus[w] = checkStatusUnknown

\* what the buffer of watcher w must hold after the polls logged so far
ExpectedHistory(w) ==
  LET L == max(items[w].OKPeriods, items[w].AlarmPeriods)
      k == Len(polls[w])
  IN [i \in 1..L |-> IF k - L + i >= 1 THEN polls[w][k - L + i]
                     ELSE checkStatusUnknown]

(* C16: the buffer of every target has the constant length                 *)
(* max(N_ok, N_alarm); after k polls it holds the last min(k, L) raw       *)
(* outcomes in poll order, preceded by neutral entries, and every appended *)
(* entry is Ok or Alarm.                                                   *)
C16_SlidingWindow ==
  \A w \in Watchers :
    /\ Len(history[w]) = max(items[w].OKPeriods, items[w].AlarmPeriods)
    /\ history[w] = ExpectedHistory(w)
    /\ \A i \in 1..Len(polls[w]) : polls[w][i] \in {checkStatusOk, checkStatusAlarm}

\* a buffer of length 2 after three polls: the oldest outcome has been dropped
C16_Witness ==
  \E w \in Watchers :
    /\ Len(history[w]) = 2 /\ Len(polls[w]) = 3
    /\ polls[w][1] # polls[w][2]
    /\ history[w] = <<polls[w][2], polls[w][3]>>

(* C18: a step of one watcher leaves the history and confirmed state of    *)
(* every other watcher unchanged, and a receive of the consumer leaves     *)
(* every watcher's history and confirmed state unchanged.                  *)
C18_PrivateState ==
  [][/\ \A w, u \in Watchers :
          (w # u /\ (pc'[w] # pc[w] \/ polls'[w] # polls[w]))
            => /\ history'[u] = history[u]
               /\ lastStatus'[u] = lastStatus[u]
               /\ newStatus'[u] = newStatus[u]
               /\ pc'[u] = pc[u]
     /\ (received' # received \/ npc' # npc)
          => /\ history' = history
             /\ lastStatus' = lastStatus
             /\ newStatus' = newStatus
             /\ pc' = pc]_vars

\* two watchers with different confirmed states and different buffers
C18_Witness ==
  \E w, u \in Watchers :
    /\ lastStatus[w] = checkStatusOk /\ lastStatus[u] = checkStatusAlarm
    /\ history[w] # history[u]
    /\ Len(received) >= 1

(* C20: lastStatus is Unknown exactly until the watcher's first event has  *)
(* been enqueued and the assignment after the send has run; it changes     *)
(* only then, to the new state of the event just enqueued, and never back  *)
(* to Unknown.                                                             *)
C20_ConfirmedState ==
  /\ [](\A w \in Watchers :
          LET E == EventsOf(w) IN
          /\ lastStatus[w] = checkStatusUnknown
               <=> (E = <<>> \/ (Len(E) = 1 /\ pc[w] = "update"))
          /\ (E # <<>> /\ pc[w] # "update") => lastStatus[w] = E[Len(E)].to)
  /\ [][\A w \in Watchers :
          lastStatus'[w] # lastStatus[w] =>
            /\ pc[w] = "update"
            /\ EventsOf(w) # <<>>
            /\ lastStatus'[w] = EventsOf(w)[Len(EventsOf(w))].to
            /\ lastStatus'[w] # checkStatusUnknown]_vars

\* confirmed Ok, then a poll evaluated Unknown: lastStatus is still Ok
C20_Witness ==
  \E w \in Watchers :
    /\ lastStatus[w] = checkStatusOk
    /\ newStatus[w] = checkStatusUnknown
    /\ pc[w] = "poll"
    /\ Len(polls[w]) >= 2

\* no value occurs twice in q
NoDuplicate(q) == \A i, j \in 1..Len(q) : i # j => q[i] # q[j]

(* C11 as stated: every enqueued event is received by the consumer exactly *)
(* once: never twice, and under fair scheduling eventually.                *)
C11_Original ==
  /\ [](NoDuplicate(received))
  /\ \A n \in 1..MaxPolls : (Len(sent) >= n) ~> (Len(received) >= n)

(* C11 amended: an enqueued event is never received twice, the consumer    *)
(* hands to the sink exactly the event it received last, and under fair    *)
(* scheduling every enqueued event is eventually received unless a failed  *)
(* delivery has ended the process before.                                  *)
C11_ExactlyOnce ==
  /\ [](/\ NoDuplicate(received)
        /\ \A i \in 1..Len(received) : received[i] = sent[i]
        /\ npc = "post" => (received # <<>> /\ change = received[Len(received)]))
  /\ \A n \in 1..MaxPolls :
       (Len(sent) >= n) ~> (Len(received) >= n \/ aborted)

\* three events enqueued and all three received, the process still running
C11_Witness ==
  /\ Len(sent) = 3 /\ Len(received) = 3 /\ ~aborted /\ npc = "recv"

(* C12: once a delivery has failed the process is gone: no watcher polls   *)
(* or enqueues, nothing more is received or delivered, and the failed      *)
(* delivery is not tried again.                                            *)
C12_FailFast ==
  /\ [](npc = "dead" => aborted)
  /\ [][npc = "dead" =>
          /\ npc' = "dead"
          /\ UNCHANGED <<pc, polls, history, lastStatus, events, sent,
                         received, change>>]_vars

\* the process ended with an event in the buffer and a watcher at its send
C12_Witness ==
  /\ npc = "dead" /\ aborted
  /\ Len(events) >= 1
  /\ \E w \in Watchers : pc[w] = "send"

\* the latest GET of watcher w failed: transport error, timeout or a status
\* code outside OKStatuses
ProbeFailed(w) ==
  probe[w].err \/ ~(\E i \in 1..Len(items[w].OKStatuses) :
                      items[w].OKStatuses[i] = probe[w].code)

RequiredViolation(conf) ==
  IF conf.URL = "" THEN "empty URL"
  ELSE IF conf.OKStatuses = <<>> THEN "empty OKStatuses"
  ELSE IF ~(conf.CheckInterval > 0) THEN "CheckInterval == 0s"
  ELSE IF ~(conf.HTTPTimeout > 0) THEN "HTTPTimeout == 0s"
  ELSE IF conf.AlarmPeriods < 1 THEN "AlarmPeriods == 0"
  ELSE IF conf.OKPeriods < 1 THEN "OKPeriods == 0"
  ELSE ""
GlobalsSet(cfg) == cfg.SlackToken # "" /\ cfg.SlackChannel # "" /\ cfg.BotName # ""
Validated == mpc # "validate"

(* C13 as stated: validateConfig returns an error exactly when a global    *)
(* field is empty, there is no target, or some target has an empty url, an *)
(* empty status-code set, an interval or timeout that is not > 0, or       *)
(* N_ok < 1 or N_alarm < 1; every accepted configuration satisfies the     *)
(* TargetConfig invariant for all targets.                                 *)
C13_Original ==
  Validated =>
    /\ (verr # NoError) <=>
         \/ ~GlobalsSet(config)
         \/ config.Items = <<>>
         \/ \E i \in 1..Len(config.Items) : RequiredViolation(config.Items[i]) # ""
    /\ verr = NoError =>
         \A i \in 1..Len(config.Items) : RequiredViolation(config.Items[i]) = ""

(* C14 as stated: with the global fields valid and some target invalid,    *)
(* validateConfig reports the lowest-index invalid target, tagged with its *)
(* index, with that target's first violated field in the check order.      *)
C14_Original ==
  (/\ Validated
   /\ GlobalsSet(config)
   /\ \E i \in 1..Len(config.Items) : RequiredViolation(config.Items[i]) # "")
  => LET i0 == CHOOSE i \in 1..Len(config.Items) :
                 /\ RequiredViolation(config.Items[i]) # ""
                 /\ \A j \in 1..(i - 1) : RequiredViolation(config.Items[j]) = ""
     IN verr = ItemError(i0 - 1, RequiredViolation(config.Items[i0]))

(* C15: validation runs once, before anything is started: after an error   *)
(* of validateConfig no watcher and no consumer ever runs, nothing is      *)
(* polled and nothing enqueued; goroutines exist only once validateConfig  *)
(* has returned nil for the whole configuration.                           *)
C15_FailFastStartup ==
  /\ [](verr # NoError =>
          /\ pc = <<>> /\ npc = "none" /\ items = <<>>
          /\ polls = <<>> /\ sent = <<>> /\ events = <<>>
          /\ mpc = "panic" /\ aborted)
  /\ []((pc # <<>> \/ npc # "none") =>
          /\ mpc = "idle"
          /\ verr = NoError
          /\ validateConfig(config) = NoError
          /\ items = config.Items)
  /\ [][mpc # "validate" => (verr' = verr /\ config' = config)]_vars

\* validation failed on the second item and the process ended at once
C15_Witness ==
  /\ verr = ItemError(1, "empty OKStatuses")
  /\ mpc = "panic" /\ aborted
  /\ pc = <<>> /\ npc = "none"

(* C19 as stated: for every configuration validateConfig accepts, no       *)
(* watcher faults: its history has length >= 1 and getNewStatus stays      *)
(* inside the buffer.                                                      *)
C19_Original ==
  \A w \in Watchers :
    /\ pc[w] \notin {"panic", "dead"}
    /\ Len(history[w]) >= 1
====
